---------------------------- MODULE Spec2Model ----------------------------
(***************************************************************************)
(* A model of the newswatch misinformation pipeline:                       *)
(*   NewsFetcher.fetchFromRSS -> GuardianService.runMonitoringCycle ->     *)
(*   processArticle -> NLPAnalyzer.extractClaims /                         *)
(*   analyzeMisinformationIndicators -> FactChecker.checkClaims ->         *)
(*   checkClaim -> calculateOverallScore -> storeReport.                   *)
(*                                                                         *)
(* Texts are strings and the string functions of the source (includes,     *)
(* toLowerCase, the regular expressions) are computed character by         *)
(* character.  Scores and confidences are exact decimals counted in        *)
(* hundredths (0.3 is 30); a combined score is the fraction num/den.  The  *)
(* one confidence whose double is not the double of its decimal            *)
(* (0.7 - 0.2) carries its distance from it in confidenceUlps.             *)
(* Timestamps (checkedAt, extractedAt, createdAt) and the random report id *)
(* are left out: no modelled decision reads them.                          *)
(***************************************************************************)
EXTENDS Integers, Sequences, FiniteSets, TLC

(***************************************************************************)
(* Bounds of the model.                                                    *)
(***************************************************************************)
MaxItems == 2
MaxDirectClaims == 2
MaxTitleWords == 3
MaxResults == 3

(***************************************************************************)
(* JavaScript values.                                                      *)
(***************************************************************************)
\* a value that is not a string (undefined, an object) where a string is expected
NotAString == "<not a string>"

IsString(x) == x # NotAString

\* outcomes of a call: a returned value, a returned null, a thrown error
Returned(v) == [tag |-> "value", value |-> v]

Null == [tag |-> "null"]

Throw == [tag |-> "throw"]

(***************************************************************************)
(* String primitives.                                                      *)
(***************************************************************************)
UpperCase == "ABCDEFGHIJKLMNOPQRSTUVWXYZ"

LowerCase == "abcdefghijklmnopqrstuvwxyz"

Digits == "0123456789"

CharAt(s, i) == SubSeq(s, i, i)

\* the characters of a string, as a set of one-character strings
CharsOf(s) == {CharAt(s, i) : i \in 1..Len(s)}

UpperChars == CharsOf(UpperCase)

\* \d of a regular expression
DigitChars == CharsOf(Digits)

\* \w of a regular expression
WordChars == CharsOf(UpperCase) \cup CharsOf(LowerCase) \cup CharsOf(Digits) \cup {"_"}

IsUpper(ch) == ch \in UpperChars

IsDigit(ch) == ch \in DigitChars

IsWordChar(ch) == ch \in WordChars

\* \s of a regular expression (the model's texts hold no other white space)
IsSpace(ch) == ch = " "

LowerOf == [ch \in UpperChars |->
             CharAt(LowerCase, CHOOSE i \in 1..Len(UpperCase) : CharAt(UpperCase, i) = ch)]

LowerChar(ch) == IF IsUpper(ch) THEN LowerOf[ch] ELSE ch

RECURSIVE toLowerCase(_)
\* String.prototype.toLowerCase: every character mapped, the two halves apart
toLowerCase(s) ==
  IF Len(s) = 0 THEN ""
  ELSE IF Len(s) = 1 THEN LowerChar(s)
  ELSE toLowerCase(SubSeq(s, 1, Len(s) \div 2)) \o toLowerCase(SubSeq(s, Len(s) \div 2 + 1, Len(s)))

\* the pattern p occurs in s starting at (1-based) position i
MatchAt(s, p, i) == i >= 1 /\ i + Len(p) - 1 <= Len(s) /\ SubSeq(s, i, i + Len(p) - 1) = p

\* String.prototype.includes
includes(s, p) == \E i \in 1..(Len(s) - Len(p) + 1) : MatchAt(s, p, i)

\* Array.prototype.some(x => text.includes(x))
someIncluded(list, text) == \E k \in DOMAIN list : includes(text, list[k])

\* Array.prototype.filter(x => text.includes(x)).length
countIncluded(list, text) == Cardinality({k \in DOMAIN list : includes(text, list[k])})

\* String.prototype.indexOf, 0-based, -1 when absent
indexOf(s, p) ==
  IF includes(s, p)
    THEN (CHOOSE i \in 1..(Len(s) - Len(p) + 1) :
            MatchAt(s, p, i) /\ \A j \in 1..(i - 1) : ~MatchAt(s, p, j)) - 1
    ELSE -1

\* String.prototype.substring(start, end), 0-based, end exclusive
substring(s, start, end) == SubSeq(s, start + 1, end)

RECURSIVE join(_, _)
\* Array.prototype.join
join(list, sep) ==
  IF Len(list) = 0 THEN ""
  ELSE IF Len(list) = 1 THEN list[1]
  ELSE list[1] \o sep \o join(Tail(list), sep)

Range(f) == {f[k] : k \in DOMAIN f}

Max(a, b) == IF a >= b THEN a ELSE b

Min(a, b) == IF a <= b THEN a ELSE b

(***************************************************************************)
(* FactChecker: the heuristic variant, the rating normalisation and the    *)
(* remote variant as a function of the oracle's response.                  *)
(***************************************************************************)
Verdicts == {"TRUE", "FALSE", "MIXED", "UNVERIFIED", "UNKNOWN"}

redFlags == <<"conspiracy", "cover-up", "they don't want you to know">>

verificationIndicators == <<"study published", "peer-reviewed", "official statement">>

scaleWords == <<"million", "billion", "thousand">>

\* /\d+%|\d+\s*(million|billion|thousand)/.test(text)
hasNumbersPattern(text) ==
  \E i \in 1..Len(text) :
    /\ IsDigit(CharAt(text, i))
    /\ \/ i + 1 <= Len(text) /\ CharAt(text, i + 1) = "%"
       \/ \E j \in (i + 1)..Len(text) :
            /\ \A k \in (i + 1)..(j - 1) : IsSpace(CharAt(text, k))
            /\ \E w \in DOMAIN scaleWords : MatchAt(text, scaleWords[w], j)

\* /according to|source|research|study/.test(text)
hasSourcesPattern(text) ==
  someIncluded(<<"according to", "source", "research", "study">>, text)

HeuristicDefaultExplanation == "Heuristic analysis - manual verification recommended"

\* A confidence is the double nearest to `hundredths`/100, moved by `ulps`
\* units in the last place.  The literals 0.3, 0.5, 0.7 and 0.8 have ulps 0.
Confidence(hundredths, ulps) == [hundredths |-> hundredths, ulps |-> ulps]

\* the double confidence - 0.2 of line 99: 0.5 - 0.2 is the double 0.3,
\* 0.7 - 0.2 is 0.49999999999999994, the double next below 0.5, and
\* 0.3 - 0.2 is 0.09999999999999998, two below the double 0.1
minusTwoTenths(hundredths) ==
  CASE hundredths = 50 -> Confidence(30, 0)
    [] hundredths = 70 -> Confidence(50, -1)
    [] hundredths = 30 -> Confidence(10, -2)

\* faulty variant of lowerConfidence: the floor of 0.3 is missing
lowerConfidenceNoFloor(hundredths) == minusTwoTenths(hundredths)

\* Math.max(0.3, confidence - 0.2), line 99
lowerConfidence(hundredths) ==
  LET lowered == minusTwoTenths(hundredths)
  IN  IF lowered.hundredths < 30 THEN Confidence(30, 0) ELSE lowered

heuristicFactCheck(claim) ==
  LET text == toLowerCase(claim.text)
      hasRedFlags == someIncluded(redFlags, text)
      confidence1 == IF hasRedFlags THEN 30 ELSE 50
      verdict1 == IF hasRedFlags THEN "FALSE" ELSE "UNVERIFIED"
      flags1 == IF hasRedFlags THEN <<"Contains conspiracy language">> ELSE <<>>
      hasVerification == someIncluded(verificationIndicators, text)
      confidence2 == IF hasVerification THEN 70 ELSE confidence1
      verdict2 == IF hasVerification THEN "TRUE" ELSE verdict1
      flags2 == IF hasVerification
                  THEN Append(flags1, "Contains verification indicators")
                  ELSE flags1
      hasNumbers == hasNumbersPattern(text)
      hasSources == hasSourcesPattern(text)
      unsourced == hasNumbers /\ ~hasSources
      confidence3 == IF unsourced THEN lowerConfidence(confidence2)
                                  ELSE Confidence(confidence2, 0)
      flags3 == IF unsourced
                  THEN Append(flags2, "Contains statistics without clear sources")
                  ELSE flags2
  IN  [claim |-> claim,
       verdict |-> verdict2,
       confidence |-> confidence3.hundredths,
       confidenceUlps |-> confidence3.ulps,
       sources |-> <<>>,
       explanation |-> IF join(flags3, "; ") # ""
                         THEN join(flags3, "; ")
                         ELSE HeuristicDefaultExplanation]

\* faulty variant of normalizeVerdict: a rating without keyword is passed through
normalizeVerdictPassThrough(textualRating) ==
  LET rating == toLowerCase(textualRating)
  IN  IF includes(rating, "true") \/ includes(rating, "correct") \/ includes(rating, "accurate")
        THEN "TRUE"
      ELSE IF includes(rating, "false") \/ includes(rating, "incorrect") \/ includes(rating, "wrong")
        THEN "FALSE"
      ELSE IF includes(rating, "mixed") \/ includes(rating, "partly") \/ includes(rating, "mostly")
        THEN "MIXED"
      ELSE IF includes(rating, "unverified") \/ includes(rating, "unproven")
        THEN "UNVERIFIED"
      ELSE textualRating

\* normalizeVerdict of a string rating
\* faulty variant of normalizeVerdict: the MIXED keywords are looked for first
normalizeVerdictMixedFirst(textualRating) ==
  LET rating == toLowerCase(textualRating)
  IN  IF includes(rating, "mixed") \/ includes(rating, "partly") \/ includes(rating, "mostly")
        THEN "MIXED"
      ELSE IF includes(rating, "true") \/ includes(rating, "correct") \/ includes(rating, "accurate")
        THEN "TRUE"
      ELSE IF includes(rating, "false") \/ includes(rating, "incorrect") \/ includes(rating, "wrong")
        THEN "FALSE"
      ELSE IF includes(rating, "unverified") \/ includes(rating, "unproven")
        THEN "UNVERIFIED"
      ELSE "UNKNOWN"

normalizeVerdict(textualRating) ==
  LET rating == toLowerCase(textualRating)
  IN  IF includes(rating, "true") \/ includes(rating, "correct") \/ includes(rating, "accurate")
        THEN "TRUE"
      ELSE IF includes(rating, "false") \/ includes(rating, "incorrect") \/ includes(rating, "wrong")
        THEN "FALSE"
      ELSE IF includes(rating, "mixed") \/ includes(rating, "partly") \/ includes(rating, "mostly")
        THEN "MIXED"
      ELSE IF includes(rating, "unverified") \/ includes(rating, "unproven")
        THEN "UNVERIFIED"
      ELSE "UNKNOWN"

\* the oracle's answers: the request fails (transport error, timeout, non-2xx
\* status), the response carries no body, or it carries data.claims, each
\* claim with its claimReview list (an absent list is the empty list)
ResponseError == [kind |-> "error"]

ResponseNoData == [kind |-> "nodata"]

ResponseData(claims) == [kind |-> "data", claims |-> claims]

\* faulty variant of googleTryBody: the first review of the first claim that
\* has one is taken, not the first review of the first claim
googleTryBodyAnyReview(claim, response) ==
  IF response.kind = "error" THEN Throw
  ELSE IF response.kind = "nodata" THEN Throw
  ELSE LET reviewed == {k \in 1..Len(response.claims) : Len(response.claims[k]) > 0}
       IN  IF reviewed = {} THEN Null
           ELSE LET review == response.claims[CHOOSE k \in reviewed : \A j \in reviewed : k <= j][1]
                IN  IF IsString(review.textualRating)
                      THEN Returned([claim |-> claim,
                                     verdict |-> normalizeVerdict(review.textualRating),
                                     confidence |-> 80,
                                     confidenceUlps |-> 0,
                                     sources |-> <<review.url>>,
                                     explanation |-> review.textualRating])
                      ELSE Throw

\* the body of checkWithGoogleFactCheck's try block, given the response
googleTryBody(claim, response) ==
  IF response.kind = "error" THEN Throw
  ELSE IF response.kind = "nodata" THEN Throw
  ELSE IF Len(response.claims) > 0
    THEN LET firstClaim == response.claims[1]
         IN  IF Len(firstClaim) > 0
               THEN LET review == firstClaim[1]
                    IN  IF IsString(review.textualRating)
                          THEN Returned([claim |-> claim,
                                         verdict |-> normalizeVerdict(review.textualRating),
                                         confidence |-> 80,
                                         confidenceUlps |-> 0,
                                         sources |-> <<review.url>>,
                                         explanation |-> review.textualRating])
                          ELSE Throw
               ELSE Null
    ELSE Null

\* faulty variant of checkWithGoogleFactCheck: a failed request yields a default
\* result instead of null
checkWithGoogleFactCheckDefaultResult(claim, response) ==
  LET r == googleTryBody(claim, response)
  IN  IF r.tag = "throw"
        THEN Returned([claim |-> claim, verdict |-> "UNKNOWN", confidence |-> 0,
                       confidenceUlps |-> 0,
                       sources |-> <<>>, explanation |-> "Fact check failed"])
        ELSE r

checkWithGoogleFactCheck(claim, response) ==
  LET r == googleTryBody(claim, response)
  IN  IF r.tag = "throw" THEN Null ELSE r

\* checkClaim up to its first await: "throw" (line 16 reads claim.text),
\* "remote" (the oracle is asked) or "heuristic"
checkClaimEntry(claim, googleApiKey) ==
  IF ~IsString(claim.text) THEN "throw"
  ELSE IF googleApiKey THEN "remote"
  ELSE "heuristic"

\* checkClaim from the oracle's response on: a result is returned as it is,
\* null (line 22) and a thrown error (line 23) both fall through to line 29
checkClaimResume(claim, response) ==
  LET result == checkWithGoogleFactCheck(claim, response)
  IN  IF result.tag = "value" THEN result
      ELSE Returned(heuristicFactCheck(claim))

\* checkClaim as a function of the configuration and of what the oracle answers
checkClaim(claim, googleApiKey, response) ==
  LET entry == checkClaimEntry(claim, googleApiKey)
  IN  IF entry = "throw" THEN Throw
      ELSE IF entry = "remote" THEN checkClaimResume(claim, response)
      ELSE Returned(heuristicFactCheck(claim))

(***************************************************************************)
(* NLPAnalyzer.                                                            *)
(***************************************************************************)
claimIndicators ==
  <<"said", "says", "reported", "announced", "confirmed", "revealed",
    "claimed", "stated", "according to", "research shows", "studies show",
    "data shows", "statistics show", "experts say", "scientists found">>

uncertaintyIndicators ==
  <<"allegedly", "supposedly", "reportedly", "rumored", "unconfirmed",
    "believed", "might", "may", "could", "possibly", "perhaps">>

emotionalWords == <<"outrage", "scandal", "crisis", "disaster", "devastating">>

RECURSIVE trimStart(_)
trimStart(s) ==
  IF Len(s) > 0 /\ IsSpace(CharAt(s, 1)) THEN trimStart(SubSeq(s, 2, Len(s))) ELSE s

RECURSIVE trimEnd(_)
trimEnd(s) ==
  IF Len(s) > 0 /\ IsSpace(CharAt(s, Len(s))) THEN trimEnd(SubSeq(s, 1, Len(s) - 1)) ELSE s

trim(s) == trimEnd(trimStart(s))

\* a sentence ends at a full stop, question or exclamation mark that is
\* followed by white space or by the end of the text
IsSentenceEnd(s, i) ==
  /\ CharAt(s, i) \in {".", "?", "!"}
  /\ i = Len(s) \/ IsSpace(CharAt(s, i + 1))

RECURSIVE sentences(_)
\* nlp(content).sentences().out('array')
sentences(s) ==
  LET t == trim(s)
  IN  IF Len(t) = 0 THEN <<>>
      ELSE IF \E i \in 1..Len(t) : IsSentenceEnd(t, i)
        THEN LET e == CHOOSE i \in 1..Len(t) :
                        IsSentenceEnd(t, i) /\ \A j \in 1..(i - 1) : ~IsSentenceEnd(t, j)
             IN  <<SubSeq(t, 1, e)>> \o sentences(SubSeq(t, e + 1, Len(t)))
        ELSE <<t>>

ContextSize == 100

getContext(sentence, fullText) ==
  LET index == indexOf(fullText, sentence)
  IN  IF index = -1 THEN sentence
      ELSE substring(fullText,
                     Max(0, index - ContextSize),
                     Min(Len(fullText), index + Len(sentence) + ContextSize))

\* /\d+/.test(sentence)
hasDigits(sentence) == \E i \in 1..Len(sentence) : IsDigit(CharAt(sentence, i))

IsClaimSentence(sentence) ==
  someIncluded(claimIndicators, toLowerCase(sentence)) \/ hasDigits(sentence)

RECURSIVE claimsOfSlimArticle(_, _)
\* faulty variant of claimsOf: a claim keeps a cut-down copy of its article
claimsOfSlimArticle(sents, article) ==
  IF Len(sents) = 0 THEN <<>>
  ELSE (IF IsClaimSentence(Head(sents))
          THEN <<[text |-> Head(sents),
                  context |-> getContext(Head(sents), article.content),
                  article |-> [article EXCEPT !.content = ""]]>>
          ELSE <<>>) \o claimsOfSlimArticle(Tail(sents), article)

RECURSIVE claimsOf(_, _)
claimsOf(sents, article) ==
  IF Len(sents) = 0 THEN <<>>
  ELSE (IF IsClaimSentence(Head(sents))
          THEN <<[text |-> Head(sents),
                  context |-> getContext(Head(sents), article.content),
                  article |-> article]>>
          ELSE <<>>) \o claimsOf(Tail(sents), article)

extractClaims(article) == claimsOf(sentences(article.content), article)

\* the matches of /\b[A-Z]{3,}\b/g in the title, as <<first, last>> positions
capsMatches(title) ==
  LET upper == [k \in 1..Len(title) |-> IsUpper(CharAt(title, k))]
      word == [k \in 1..Len(title) |-> IsWordChar(CharAt(title, k))]
  IN  {m \in (1..Len(title)) \X (1..Len(title)) :
         /\ m[2] >= m[1] + 2
         /\ m[1] = 1 \/ ~word[m[1] - 1]
         /\ m[2] = Len(title) \/ ~word[m[2] + 1]
         /\ \A k \in m[1]..m[2] : upper[k]}

\* /!{2,}/.test(article.title) || /BREAKING|SHOCKING|UNBELIEVABLE/i.test(title)
sensationalTitle(rawTitle, title) ==
  includes(rawTitle, "!!") \/ someIncluded(<<"breaking", "shocking", "unbelievable">>, toLowerCase(title))

\* /according to|source|research|study|data/i.test(content)
contentHasSources(content) ==
  someIncluded(<<"according to", "source", "research", "study", "data">>, toLowerCase(content))

FlagUncertainty == "High uncertainty language detected"

FlagSensational == "Sensational title detected"

FlagCapitalization == "Excessive capitalization detected"

FlagEmotional == "High emotional language detected"

FlagNoSources == "Lack of cited sources"

\* faulty variant of uncertaintyTriggered: >= for >
uncertaintyTriggeredAtFive(content) == countIncluded(uncertaintyIndicators, content) >= 5

\* lines 67-71
uncertaintyTriggered(content) == countIncluded(uncertaintyIndicators, content) > 5

\* lines 83-84: capsWords && capsWords.length > 2
capitalizationTriggered(rawTitle) == Cardinality(capsMatches(rawTitle)) > 2

\* lines 90-93
emotionalTriggered(content) == countIncluded(emotionalWords, content) > 3

\* faulty variant of penalize: the flag is pushed, the penalty forgotten
penalizeFlagOnly(r, flag, penalty) == [score |-> r.score, flags |-> Append(r.flags, flag)]

\* flags.push(flag); score -= penalty
penalize(r, flag, penalty) == [score |-> r.score - penalty, flags |-> Append(r.flags, flag)]

\* score = Math.max(0, Math.min(1, score))
clampScore(score) == Max(0, Min(100, score))

\* analyzeMisinformationIndicators of an article whose title and content are strings
analyzeMisinformationIndicators(article) ==
  LET content == toLowerCase(article.content)
      title == toLowerCase(article.title)
      r0 == [score |-> 100, flags |-> <<>>]
      r1 == IF uncertaintyTriggered(content) THEN penalize(r0, FlagUncertainty, 20) ELSE r0
      r2 == IF sensationalTitle(article.title, title) THEN penalize(r1, FlagSensational, 15) ELSE r1
      r3 == IF capitalizationTriggered(article.title) THEN penalize(r2, FlagCapitalization, 10) ELSE r2
      r4 == IF emotionalTriggered(content) THEN penalize(r3, FlagEmotional, 10) ELSE r3
      r5 == IF ~contentHasSources(content) THEN penalize(r4, FlagNoSources, 20) ELSE r4
  IN  [score |-> clampScore(r5.score), flags |-> r5.flags]

(***************************************************************************)
(* GuardianService.calculateOverallScore.  The result is the fraction      *)
(* num/den: nlpScore/100 without results, and with n results               *)
(* 0.4 * nlpScore/100 + 0.6 * (sum/100)/n = (4*n*nlpScore + 6*sum)/(1000*n).*)
(***************************************************************************)
\* faulty variant of directionalScore: score - 1 for 1 - score
directionalScoreSignSlip(result) ==
  IF result.verdict = "FALSE" THEN result.confidence - 100
  ELSE IF result.verdict = "MIXED" THEN 50
  ELSE result.confidence

\* faulty variant of directionalScore: the MIXED branch is missing
directionalScoreNoMixed(result) ==
  IF result.verdict = "FALSE" THEN 100 - result.confidence
  ELSE result.confidence

\* the reducer's step for one result
directionalScore(result) ==
  IF result.verdict = "FALSE" THEN 100 - result.confidence
  ELSE IF result.verdict = "MIXED" THEN 50
  ELSE result.confidence

RECURSIVE reduceScores(_)
reduceScores(results) ==
  IF Len(results) = 0 THEN 0
  ELSE directionalScore(Head(results)) + reduceScores(Tail(results))

calculateOverallScore(nlpScore, factCheckResults) ==
  IF Len(factCheckResults) = 0
    THEN [num |-> nlpScore, den |-> 100]
    ELSE [num |-> 4 * Len(factCheckResults) * nlpScore + 6 * reduceScores(factCheckResults),
          den |-> 1000 * Len(factCheckResults)]

\* comparisons of fractions with positive denominators
FracLess(a, b) == a.num * b.den < b.num * a.den

FracEq(a, b) == a.num * b.den = b.num * a.den

Frac(hundredths) == [num |-> hundredths, den |-> 100]

(***************************************************************************)
(* NewsFetcher.                                                            *)
(***************************************************************************)
\* position i opens a tag: a "<" with a ">" somewhere after it
OpensTag(s, i) == CharAt(s, i) = "<" /\ \E j \in (i + 1)..Len(s) : CharAt(s, j) = ">"

First(S) == CHOOSE i \in S : \A j \in S : i <= j

RECURSIVE stripTags(_)
\* html.replace(/<[^>]*>/g, ' '): tag after tag, from the left
stripTags(s) ==
  LET opens == {i \in 1..Len(s) : OpensTag(s, i)}
  IN  IF opens = {} THEN s
      ELSE LET b == First(opens)
               e == First({j \in (b + 1)..Len(s) : CharAt(s, j) = ">"})
           IN  SubSeq(s, 1, b - 1) \o " " \o stripTags(SubSeq(s, e + 1, Len(s)))

RECURSIVE collapseSpaces(_)
\* .replace(/\s+/g, ' '): run after run of white space, from the left
collapseSpaces(s) ==
  LET spaces == {i \in 1..Len(s) : IsSpace(CharAt(s, i))}
  IN  IF spaces = {} THEN s
      ELSE LET b == First(spaces)
           IN  SubSeq(s, 1, b - 1) \o " " \o collapseSpaces(trimStart(SubSeq(s, b, Len(s))))

stripHtml(html) == trim(collapseSpaces(stripTags(html)))

\* md5 of the url in hexadecimal: a function of the url alone, taken to be
\* free of collisions
generateId(url) == "md5:" \o url

\* the article made of one feed item (it has a title and a link)
articleOf(item, feedTitle) ==
  [id |-> generateId(item.link),
   title |-> item.title,
   content |-> stripHtml(item.content),
   url |-> item.link,
   source |-> feedTitle]

RECURSIVE articlesOfItems(_, _)
articlesOfItems(items, feedTitle) ==
  IF Len(items) = 0 THEN <<>>
  ELSE (IF Head(items).title = "" \/ Head(items).link = ""
          THEN <<>>
          ELSE <<articleOf(Head(items), feedTitle)>>) \o articlesOfItems(Tail(items), feedTitle)

RECURSIVE fetchFromRSS(_)
\* feeds: per feed URL what parseURL gives, an error or a feed with items
fetchFromRSS(feeds) ==
  IF Len(feeds) = 0 THEN <<>>
  ELSE (IF Head(feeds).ok
          THEN articlesOfItems(Head(feeds).items, Head(feeds).title)
          ELSE <<>>) \o fetchFromRSS(Tail(feeds))

(***************************************************************************)
(* GuardianService configuration and the store decision.                   *)
(***************************************************************************)
\* config.minConfidenceThreshold, in hundredths
minConfidenceThreshold == 60

\* config.newsRssFeeds.length
NumFeeds == 2

\* faulty variant of belowThreshold: <= for <
atOrBelowThreshold(report) == ~FracLess(Frac(minConfidenceThreshold), report.overallScore)

\* line 85: report.overallScore < this.config.minConfidenceThreshold
belowThreshold(report) == FracLess(report.overallScore, Frac(minConfidenceThreshold))

(***************************************************************************)
(* Inputs of the pipeline: what the feeds deliver, what the oracle         *)
(* answers, how storing ends.                                              *)
(***************************************************************************)
\* no claim sentence
ItemCouncil ==
  [title |-> "Council meets", link |-> "http://n.example/council",
   content |-> "<p>The council met on a sunny day.</p>"]

\* two claims; stylistic score 0.9; heuristic results give exactly 0.6
ItemMarket ==
  [title |-> "Market report", link |-> "http://n.example/market",
   content |-> "<p>Outrage and scandal fuel the crisis and disaster says a study.</p> <p>Prices rose 40% last year.</p>"]

\* one claim; sensational, capitalised title, no sources
ItemShock ==
  [title |-> "BREAKING!! SHOCKING TRUTH", link |-> "http://n.example/shock",
   content |-> "They don't want you to know the cover-up affects 5 million people."]

\* one claim; the title is an object, not a string
ItemBadTitle ==
  [title |-> NotAString, link |-> "http://n.example/odd",
   content |-> "Officials confirmed the figures."]

\* no link: skipped by fetchFromRSS
ItemNoLink ==
  [title |-> "Untitled", link |-> "", content |-> "Officials said nothing."]

\* two claims, the same sentence twice
ItemEcho ==
  [title |-> "Prices again", link |-> "http://n.example/echo",
   content |-> "Prices rose 40%. Prices rose 40%."]

Items == {ItemCouncil, ItemMarket, ItemShock, ItemBadTitle, ItemNoLink, ItemEcho}

SeqsUpTo(S, n) == UNION {[1..k -> S] : k \in 0..n}

FeedError == [ok |-> FALSE]

FeedTitle == "Example Feed"

FeedOf(items) == [ok |-> TRUE, title |-> FeedTitle, items |-> items]

FeedResults == {FeedError} \cup {FeedOf(items) : items \in SeqsUpTo(Items, MaxItems)}

FeedItemCount(f) == IF f.ok THEN Len(f.items) ELSE 0

RECURSIVE TotalItems(_)
TotalItems(feeds) ==
  IF Len(feeds) = 0 THEN 0 ELSE FeedItemCount(Head(feeds)) + TotalItems(Tail(feeds))

\* one result per configured feed URL, at most MaxItems items in all
FeedInputs == {feeds \in [1..NumFeeds -> FeedResults] : TotalItems(feeds) <= MaxItems}

ReviewFalse == [textualRating |-> "False", url |-> "http://fc.example/r1"]

ReviewNoRating == [textualRating |-> NotAString, url |-> "http://fc.example/r2"]

Responses ==
  {ResponseError, ResponseNoData, ResponseData(<<>>),
   ResponseData(<< <<>> >>),
   ResponseData(<< <<ReviewFalse>> >>),
   ResponseData(<< <<ReviewNoRating>> >>)}

\* storeReport: both stores succeed, publishReport gives null, or
\* storeReportHash gives null (no connection, or its own error)
StoreOutcomes == {"stored", "publish failed", "hash failed"}

\* claims handed to checkClaims by a caller other than processArticle
DirectArticle == [id |-> "", title |-> "", content |-> "", url |-> "", source |-> ""]

DirectClaim(text) == [text |-> text, context |-> text, article |-> DirectArticle]

DirectClaims ==
  {DirectClaim(NotAString),
   DirectClaim("Experts say 40% agree."),
   DirectClaim("A peer-reviewed study published the data.")}

DirectClaimInputs == SeqsUpTo(DirectClaims, MaxDirectClaims)

(***************************************************************************)
(* The state.                                                              *)
(***************************************************************************)
Cycles == {1, 2}

VARIABLES
  googleApiKey,  \* FactChecker.googleApiKey is set (truthy)
  pc,            \* per call: where it stands
  caller,        \* per call: who called checkClaims
  articles,      \* runMonitoringCycle: the fetched batch
  ai,            \* runMonitoringCycle: position in the batch (1-based)
  reports,       \* runMonitoringCycle: reports so far
  reportIdx,     \* history: the batch position of each report
  calls,         \* history: batch positions for which a collaborator was invoked
  stored,        \* history: the reports handed to storeReport, and how it ended
  claims,        \* checkClaims: its argument
  ci,            \* checkClaims: position in claims (1-based)
  results,       \* checkClaims: results so far
  checks,        \* history: the claim checks of this checkClaims call
  ccReturn,      \* history: how the last checkClaims call ended
  events,        \* history: what this checkClaims call did, in order
  analysis,      \* processArticle: the stylistic analysis
  returned,      \* how the top-level call ended
  probe          \* a single application of a pure function, for the unit checks

vars == <<googleApiKey, pc, caller, articles, ai, reports, reportIdx, calls, stored,
          claims, ci, results, checks, ccReturn, events, analysis, returned, probe>>

cycleVars == <<articles, ai, reports, reportIdx, calls, stored, analysis>>

checkVars == <<claims, ci, results, checks, ccReturn, events>>

NotYet == [tag |-> "none"]

NoCalls == [extractClaims |-> {}, analyze |-> {}, checkClaims |-> {}, storeReport |-> {},
            failed |-> {}]

NoAnalysis == [score |-> 100, flags |-> <<>>]

NoProbe == [kind |-> "none"]

PipelineInit ==
  /\ pc = [c \in Cycles |-> "idle"]
  /\ caller = [c \in Cycles |-> "none"]
  /\ articles = [c \in Cycles |-> <<>>]
  /\ ai = [c \in Cycles |-> 1]
  /\ reports = [c \in Cycles |-> <<>>]
  /\ reportIdx = [c \in Cycles |-> <<>>]
  /\ calls = [c \in Cycles |-> NoCalls]
  /\ stored = [c \in Cycles |-> <<>>]
  /\ claims = [c \in Cycles |-> <<>>]
  /\ ci = [c \in Cycles |-> 1]
  /\ results = [c \in Cycles |-> <<>>]
  /\ checks = [c \in Cycles |-> <<>>]
  /\ ccReturn = [c \in Cycles |-> NotYet]
  /\ events = [c \in Cycles |-> <<>>]
  /\ analysis = [c \in Cycles |-> NoAnalysis]
  /\ returned = [c \in Cycles |-> NotYet]

Init ==
  /\ googleApiKey \in BOOLEAN
  /\ PipelineInit
  /\ probe = NoProbe

(***************************************************************************)
(* runMonitoringCycle and processArticle.                                  *)
(***************************************************************************)
\* runMonitoringCycle is called and awaits fetchFromRSS
RunMonitoringCycle(c) ==
  /\ pc[c] = "idle"
  /\ pc' = [pc EXCEPT ![c] = "fetch"]
  /\ UNCHANGED <<googleApiKey, caller, cycleVars, checkVars, returned, probe>>

\* lines 67-76: the batch arrives; an empty batch ends the cycle
FetchReturns(c) ==
  /\ pc[c] = "fetch"
  /\ \E feeds \in FeedInputs :
       LET batch == fetchFromRSS(feeds)
       IN  /\ articles' = [articles EXCEPT ![c] = batch]
           /\ IF Len(batch) = 0
                THEN /\ returned' = [returned EXCEPT ![c] = Returned(<<>>)]
                     /\ pc' = [pc EXCEPT ![c] = "done"]
                ELSE /\ returned' = returned
                     /\ pc' = [pc EXCEPT ![c] = "article"]
  /\ ai' = [ai EXCEPT ![c] = 1]
  /\ reports' = [reports EXCEPT ![c] = <<>>]
  /\ reportIdx' = [reportIdx EXCEPT ![c] = <<>>]
  /\ calls' = [calls EXCEPT ![c] = NoCalls]
  /\ UNCHANGED <<googleApiKey, caller, stored, analysis, checkVars, probe>>

AtArticle(c) == pc[c] = "article" /\ ai[c] <= Len(articles[c])

\* faulty variant of ProcessArticleNoClaims: the early return is missing
ProcessArticleNoClaimsGoesOn(c) ==
  /\ AtArticle(c)
  /\ Len(extractClaims(articles[c][ai[c]])) = 0
  /\ IsString(articles[c][ai[c]].title)
  /\ calls' = [calls EXCEPT ![c].extractClaims = @ \cup {ai[c]},
                            ![c].analyze = @ \cup {ai[c]},
                            ![c].checkClaims = @ \cup {ai[c]}]
  /\ analysis' = [analysis EXCEPT ![c] = analyzeMisinformationIndicators(articles[c][ai[c]])]
  /\ claims' = [claims EXCEPT ![c] = <<>>]
  /\ ci' = [ci EXCEPT ![c] = 1]
  /\ results' = [results EXCEPT ![c] = <<>>]
  /\ checks' = [checks EXCEPT ![c] = <<>>]
  /\ ccReturn' = [ccReturn EXCEPT ![c] = NotYet]
  /\ events' = [events EXCEPT ![c] = <<>>]
  /\ caller' = [caller EXCEPT ![c] = "processArticle"]
  /\ pc' = [pc EXCEPT ![c] = "check"]
  /\ UNCHANGED <<googleApiKey, articles, ai, reports, reportIdx, stored, returned, probe>>

\* processArticle lines 110-115: no claims, null is returned and the loop
\* of runMonitoringCycle goes on (line 81: no report)
ProcessArticleNoClaims(c) ==
  /\ AtArticle(c)
  /\ Len(extractClaims(articles[c][ai[c]])) = 0
  /\ calls' = [calls EXCEPT ![c].extractClaims = @ \cup {ai[c]}]
  /\ ai' = [ai EXCEPT ![c] = @ + 1]
  /\ UNCHANGED <<googleApiKey, pc, caller, articles, reports, reportIdx, stored, analysis,
                 checkVars, returned, probe>>

\* faulty variant of ProcessArticleThrows: no try/catch per article, the error ends
\* the cycle in the catch of line 96
ProcessArticleThrowsEndsCycle(c) ==
  /\ AtArticle(c)
  /\ Len(extractClaims(articles[c][ai[c]])) > 0
  /\ ~IsString(articles[c][ai[c]].title)
  /\ calls' = [calls EXCEPT ![c].extractClaims = @ \cup {ai[c]},
                            ![c].analyze = @ \cup {ai[c]},
                            ![c].failed = @ \cup {ai[c]}]
  /\ returned' = [returned EXCEPT ![c] = Returned(<<>>)]
  /\ pc' = [pc EXCEPT ![c] = "done"]
  /\ UNCHANGED <<googleApiKey, caller, articles, ai, reports, reportIdx, stored, analysis,
                 checkVars, probe>>

\* processArticle lines 118 and 142-145: the analysis throws (the title is
\* not a string), the catch returns null and the loop goes on
ProcessArticleThrows(c) ==
  /\ AtArticle(c)
  /\ Len(extractClaims(articles[c][ai[c]])) > 0
  /\ ~IsString(articles[c][ai[c]].title)
  /\ calls' = [calls EXCEPT ![c].extractClaims = @ \cup {ai[c]},
                            ![c].analyze = @ \cup {ai[c]},
                            ![c].failed = @ \cup {ai[c]}]
  /\ ai' = [ai EXCEPT ![c] = @ + 1]
  /\ UNCHANGED <<googleApiKey, pc, caller, articles, reports, reportIdx, stored, analysis,
                 checkVars, returned, probe>>

\* processArticle lines 110-121: claims extracted, article analysed,
\* checkClaims called
ProcessArticleChecks(c) ==
  /\ AtArticle(c)
  /\ Len(extractClaims(articles[c][ai[c]])) > 0
  /\ IsString(articles[c][ai[c]].title)
  /\ calls' = [calls EXCEPT ![c].extractClaims = @ \cup {ai[c]},
                            ![c].analyze = @ \cup {ai[c]},
                            ![c].checkClaims = @ \cup {ai[c]}]
  /\ analysis' = [analysis EXCEPT ![c] = analyzeMisinformationIndicators(articles[c][ai[c]])]
  /\ claims' = [claims EXCEPT ![c] = extractClaims(articles[c][ai[c]])]
  /\ ci' = [ci EXCEPT ![c] = 1]
  /\ results' = [results EXCEPT ![c] = <<>>]
  /\ checks' = [checks EXCEPT ![c] = <<>>]
  /\ ccReturn' = [ccReturn EXCEPT ![c] = NotYet]
  /\ events' = [events EXCEPT ![c] = <<>>]
  /\ caller' = [caller EXCEPT ![c] = "processArticle"]
  /\ pc' = [pc EXCEPT ![c] = "check"]
  /\ UNCHANGED <<googleApiKey, articles, ai, reports, reportIdx, stored, returned, probe>>

\* faulty variant of assembleReport: the explanations of the fact checks are
\* added to the report's flags
assembleReportWithCheckFlags(article, claimList, factCheckResults, analysed) ==
  [article |-> article,
   claims |-> claimList,
   factCheckResults |-> factCheckResults,
   overallScore |-> calculateOverallScore(analysed.score, factCheckResults),
   flags |-> analysed.flags \o [k \in DOMAIN factCheckResults |-> factCheckResults[k].explanation]]

\* processArticle lines 127-135
assembleReport(article, claimList, factCheckResults, analysed) ==
  [article |-> article,
   claims |-> claimList,
   factCheckResults |-> factCheckResults,
   overallScore |-> calculateOverallScore(analysed.score, factCheckResults),
   flags |-> analysed.flags]

\* checkClaims returns to processArticle (lines 124-141), the report returns
\* to runMonitoringCycle (lines 81-87): pushed, and stored when below the
\* threshold
ProcessArticleReturns(c) ==
  /\ pc[c] = "check"
  /\ caller[c] = "processArticle"
  /\ ci[c] > Len(claims[c])
  /\ ccReturn' = [ccReturn EXCEPT ![c] = Returned(results[c])]
  /\ LET report == assembleReport(articles[c][ai[c]], claims[c], results[c], analysis[c])
     IN  /\ reports' = [reports EXCEPT ![c] = Append(@, report)]
         /\ reportIdx' = [reportIdx EXCEPT ![c] = Append(@, ai[c])]
         /\ IF belowThreshold(report)
              THEN /\ pc' = [pc EXCEPT ![c] = "store"]
                   /\ ai' = ai
              ELSE /\ pc' = [pc EXCEPT ![c] = "article"]
                   /\ ai' = [ai EXCEPT ![c] = @ + 1]
  /\ UNCHANGED <<googleApiKey, caller, articles, calls, stored, analysis,
                 claims, ci, results, checks, events, returned, probe>>

\* storeReport lines 151-165: however the stores end, nothing is thrown
StoreReport(c) ==
  /\ pc[c] = "store"
  /\ \E outcome \in StoreOutcomes :
       stored' = [stored EXCEPT ![c] =
                    Append(@, [report |-> reports[c][Len(reports[c])], outcome |-> outcome])]
  /\ calls' = [calls EXCEPT ![c].storeReport = @ \cup {ai[c]}]
  /\ ai' = [ai EXCEPT ![c] = @ + 1]
  /\ pc' = [pc EXCEPT ![c] = "article"]
  /\ UNCHANGED <<googleApiKey, caller, articles, reports, reportIdx, analysis,
                 checkVars, returned, probe>>

\* lines 94-95: the batch is done
ReturnReports(c) ==
  /\ pc[c] = "article"
  /\ ai[c] > Len(articles[c])
  /\ returned' = [returned EXCEPT ![c] = Returned(reports[c])]
  /\ pc' = [pc EXCEPT ![c] = "done"]
  /\ UNCHANGED <<googleApiKey, caller, cycleVars, checkVars, probe>>

(***************************************************************************)
(* checkClaims and checkClaim.                                             *)
(***************************************************************************)
\* checkClaims is called by another caller than processArticle
CallCheckClaims(c) ==
  /\ pc[c] = "idle"
  /\ \E input \in DirectClaimInputs : claims' = [claims EXCEPT ![c] = input]
  /\ ci' = [ci EXCEPT ![c] = 1]
  /\ results' = [results EXCEPT ![c] = <<>>]
  /\ checks' = [checks EXCEPT ![c] = <<>>]
  /\ ccReturn' = [ccReturn EXCEPT ![c] = NotYet]
  /\ events' = [events EXCEPT ![c] = <<>>]
  /\ caller' = [caller EXCEPT ![c] = "direct"]
  /\ pc' = [pc EXCEPT ![c] = "check"]
  /\ UNCHANGED <<googleApiKey, cycleVars, returned, probe>>

AtClaim(c) == pc[c] = "check" /\ ci[c] <= Len(claims[c])

NoResponse == [kind |-> "none"]

\* what happened to the claim at position i: its check started ("start"),
\* axios.get was issued ("request"), its check ended ("end", ok: with a
\* result), the timer of line 147 fired ("delay")
Event(ev, i, ok) == [ev |-> ev, i |-> i, ok |-> ok]

CheckRecord(claim, asked, response, outcome) ==
  [claim |-> claim, asked |-> asked, response |-> response, outcome |-> outcome]

\* faulty variant of CheckClaimThrows: no try/catch per claim, the error leaves
\* checkClaims (and is caught by processArticle, which returns null)
CheckClaimThrowsLeaves(c) ==
  /\ AtClaim(c)
  /\ checkClaimEntry(claims[c][ci[c]], googleApiKey) = "throw"
  /\ checks' = [checks EXCEPT ![c] = Append(@, CheckRecord(claims[c][ci[c]], FALSE, NoResponse, Throw))]
  /\ events' = [events EXCEPT ![c] = @ \o <<Event("start", ci[c], TRUE), Event("end", ci[c], FALSE)>>]
  /\ ccReturn' = [ccReturn EXCEPT ![c] = Throw]
  /\ IF caller[c] = "direct"
       THEN /\ returned' = [returned EXCEPT ![c] = Throw]
            /\ pc' = [pc EXCEPT ![c] = "done"]
            /\ UNCHANGED <<ai, calls>>
       ELSE /\ returned' = returned
            /\ pc' = [pc EXCEPT ![c] = "article"]
            /\ calls' = [calls EXCEPT ![c].failed = @ \cup {ai[c]}]
            /\ ai' = [ai EXCEPT ![c] = @ + 1]
  /\ UNCHANGED <<googleApiKey, caller, articles, reports, reportIdx, stored, analysis,
                 claims, ci, results, probe>>

\* checkClaim throws before any await; lines 148-150 catch it: no result,
\* no delay, next claim
CheckClaimThrows(c) ==
  /\ AtClaim(c)
  /\ checkClaimEntry(claims[c][ci[c]], googleApiKey) = "throw"
  /\ checks' = [checks EXCEPT ![c] = Append(@, CheckRecord(claims[c][ci[c]], FALSE, NoResponse, Throw))]
  /\ events' = [events EXCEPT ![c] = @ \o <<Event("start", ci[c], TRUE), Event("end", ci[c], FALSE)>>]
  /\ ci' = [ci EXCEPT ![c] = @ + 1]
  /\ UNCHANGED <<googleApiKey, pc, caller, cycleVars, claims, results, ccReturn, returned, probe>>

\* faulty variant of CheckClaimHeuristic: line 147 is missing, the loop goes
\* on to the next claim at once
CheckClaimHeuristicNoDelay(c) ==
  /\ AtClaim(c)
  /\ checkClaimEntry(claims[c][ci[c]], googleApiKey) = "heuristic"
  /\ LET outcome == checkClaim(claims[c][ci[c]], googleApiKey, NoResponse)
     IN  /\ checks' = [checks EXCEPT ![c] = Append(@, CheckRecord(claims[c][ci[c]], FALSE, NoResponse, outcome))]
         /\ results' = [results EXCEPT ![c] = Append(@, outcome.value)]
  /\ events' = [events EXCEPT ![c] = @ \o <<Event("start", ci[c], TRUE), Event("end", ci[c], TRUE)>>]
  /\ ci' = [ci EXCEPT ![c] = @ + 1]
  /\ UNCHANGED <<googleApiKey, pc, caller, cycleVars, claims, ccReturn, returned, probe>>

\* checkClaim without credential: the heuristic result is pushed (line 144)
\* and the delay starts (line 147)
CheckClaimHeuristic(c) ==
  /\ AtClaim(c)
  /\ checkClaimEntry(claims[c][ci[c]], googleApiKey) = "heuristic"
  /\ LET outcome == checkClaim(claims[c][ci[c]], googleApiKey, NoResponse)
     IN  /\ checks' = [checks EXCEPT ![c] = Append(@, CheckRecord(claims[c][ci[c]], FALSE, NoResponse, outcome))]
         /\ results' = [results EXCEPT ![c] = Append(@, outcome.value)]
  /\ events' = [events EXCEPT ![c] = @ \o <<Event("start", ci[c], TRUE), Event("end", ci[c], TRUE)>>]
  /\ pc' = [pc EXCEPT ![c] = "delay"]
  /\ UNCHANGED <<googleApiKey, caller, cycleVars, claims, ci, ccReturn, returned, probe>>

\* faulty variant of CheckClaimAsks: the checks are fanned out, the request is
\* issued and the loop goes on to the next claim without awaiting it
CheckClaimAsksFanOut(c) ==
  /\ AtClaim(c)
  /\ checkClaimEntry(claims[c][ci[c]], googleApiKey) = "remote"
  /\ events' = [events EXCEPT ![c] = @ \o <<Event("start", ci[c], TRUE), Event("request", ci[c], TRUE)>>]
  /\ ci' = [ci EXCEPT ![c] = @ + 1]
  /\ UNCHANGED <<googleApiKey, pc, caller, cycleVars, claims, results, checks, ccReturn,
                 returned, probe>>

\* checkClaim with credential: axios.get is issued (line 40)
CheckClaimAsks(c) ==
  /\ AtClaim(c)
  /\ checkClaimEntry(claims[c][ci[c]], googleApiKey) = "remote"
  /\ pc' = [pc EXCEPT ![c] = "remote"]
  /\ events' = [events EXCEPT ![c] = @ \o <<Event("start", ci[c], TRUE), Event("request", ci[c], TRUE)>>]
  /\ UNCHANGED <<googleApiKey, caller, cycleVars, claims, ci, results, checks, ccReturn,
                 returned, probe>>

\* the oracle answers or the request fails; the result is pushed and the
\* delay starts
RemoteResponds(c) ==
  /\ pc[c] = "remote"
  /\ \E response \in Responses :
       LET outcome == checkClaim(claims[c][ci[c]], googleApiKey, response)
       IN  /\ checks' = [checks EXCEPT ![c] = Append(@, CheckRecord(claims[c][ci[c]], TRUE, response, outcome))]
           /\ results' = [results EXCEPT ![c] = Append(@, outcome.value)]
  /\ events' = [events EXCEPT ![c] = Append(@, Event("end", ci[c], TRUE))]
  /\ pc' = [pc EXCEPT ![c] = "delay"]
  /\ UNCHANGED <<googleApiKey, caller, cycleVars, claims, ci, ccReturn, returned, probe>>

\* the 1000 ms timer of line 147 fires
DelayElapses(c) ==
  /\ pc[c] = "delay"
  /\ events' = [events EXCEPT ![c] = Append(@, Event("delay", ci[c], TRUE))]
  /\ ci' = [ci EXCEPT ![c] = @ + 1]
  /\ pc' = [pc EXCEPT ![c] = "check"]
  /\ UNCHANGED <<googleApiKey, caller, cycleVars, claims, results, checks, ccReturn, returned, probe>>

\* line 153, to a caller other than processArticle
CheckClaimsReturns(c) ==
  /\ pc[c] = "check"
  /\ caller[c] = "direct"
  /\ ci[c] > Len(claims[c])
  /\ ccReturn' = [ccReturn EXCEPT ![c] = Returned(results[c])]
  /\ returned' = [returned EXCEPT ![c] = Returned(results[c])]
  /\ pc' = [pc EXCEPT ![c] = "done"]
  /\ UNCHANGED <<googleApiKey, caller, cycleVars, claims, ci, results, checks, events, probe>>

Step(c) ==
  \/ RunMonitoringCycle(c)
  \/ FetchReturns(c)
  \/ ProcessArticleNoClaims(c)
  \/ ProcessArticleThrows(c)
  \/ ProcessArticleChecks(c)
  \/ ProcessArticleReturns(c)
  \/ StoreReport(c)
  \/ ReturnReports(c)
  \/ CallCheckClaims(c)
  \/ CheckClaimThrows(c)
  \/ CheckClaimHeuristic(c)
  \/ CheckClaimAsks(c)
  \/ RemoteResponds(c)
  \/ DelayElapses(c)
  \/ CheckClaimsReturns(c)

\* one call: a single monitoring cycle (the `check` command) or one
\* checkClaims call
Next == Step(1)

Spec == Init /\ [][Next]_vars

\* the steps of a checkClaims call that the process takes by itself:
\* continuations run by the event loop and the timer of line 147.  The
\* oracle's step (RemoteResponds) is not among them.
LocalStep(c) ==
  \/ CheckClaimThrows(c)
  \/ CheckClaimHeuristic(c)
  \/ CheckClaimAsks(c)
  \/ DelayElapses(c)
  \/ CheckClaimsReturns(c)
  \/ ProcessArticleReturns(c)

(***************************************************************************)
(* startContinuousMonitoring (specification SpecMonitor).  The first cycle *)
(* is awaited before setInterval is called (line 209), so it is over when  *)
(* the timer starts; the calls below are the cycles of the timer's first   *)
(* and second tick.  Nothing in the callback of lines 212-214 looks at the *)
(* cycle before, and how long a cycle takes is not bounded by the          *)
(* interval, so a tick may come at any time after the one before.          *)
(***************************************************************************)
\* the batches the feeds deliver while monitoring
MonitorBatches ==
  {<<>>} \cup {<<articleOf(item, FeedTitle)>> : item \in {ItemCouncil, ItemShock, ItemBadTitle}}

\* lines 212-214: the timer fires and its callback calls runMonitoringCycle
TimerFires(c) ==
  /\ IF c = 1 THEN TRUE ELSE pc[c - 1] # "idle"
  /\ RunMonitoringCycle(c)

MonitorFetchReturns(c) == FetchReturns(c) /\ articles'[c] \in MonitorBatches

MonitorNext ==
  \E c \in Cycles :
    \/ TimerFires(c)
    \/ MonitorFetchReturns(c)
    \/ ProcessArticleNoClaims(c)
    \/ ProcessArticleThrows(c)
    \/ ProcessArticleChecks(c)
    \/ ProcessArticleReturns(c)
    \/ StoreReport(c)
    \/ ReturnReports(c)
    \/ CheckClaimHeuristic(c)
    \/ CheckClaimAsks(c)
    \/ RemoteResponds(c)
    \/ DelayElapses(c)

SpecMonitor == Init /\ [][MonitorNext]_vars

(***************************************************************************)
(* Unit applications: one pure function applied once to one input          *)
(* (specification SpecUnit).                                               *)
(***************************************************************************)
\* the texts made of the fragments picked by `chosen`, in the list's order
RECURSIVE TextOf(_, _)
TextOf(fragments, chosen) ==
  IF Len(fragments) = 0 THEN ""
  ELSE LET rest == TextOf(Tail(fragments), {k - 1 : k \in chosen \ {1}})
       IN  IF 1 \in chosen
             THEN (IF rest = "" THEN Head(fragments) ELSE Head(fragments) \o " " \o rest)
             ELSE rest

TextsOf(fragments) == {TextOf(fragments, chosen) : chosen \in SUBSET DOMAIN fragments}

TitleWords == {"WOW", "USA", "UK", "Shocking", "!!", "news"}

Titles == {join(ws, " ") : ws \in SeqsUpTo(TitleWords, MaxTitleWords)}

CoreTitles == {"", "news", "BREAKING!! WOW USA NOW"}

ContentFragments ==
  <<"Allegedly, supposedly and reportedly", "it might or could", "Perhaps", "maybe",
    "outrage over a scandal", "crisis", "a devastating disaster",
    "according to a STUDY", "in 2024.">>

Contents == TextsOf(ContentFragments)

CoreContents == {"", TextOf(ContentFragments, DOMAIN ContentFragments), "according to a STUDY"}

ProbeArticle(title, content) ==
  [id |-> generateId("http://n.example/probe"), title |-> title, content |-> content,
   url |-> "http://n.example/probe", source |-> FeedTitle]

ProbeArticles ==
  {ProbeArticle(t, x) : t \in Titles, x \in CoreContents}
    \cup {ProbeArticle(t, x) : t \in CoreTitles, x \in Contents}

ClaimFragments ==
  <<"This is a Conspiracy", "a cover-up", "in a peer-reviewed paper", "the study published",
    "that affects 40% of people", "and costs 5 million", "according to officials">>

ProbeClaims ==
  {DirectClaim(t) : t \in TextsOf(ClaimFragments)}
    \cup {DirectClaim("This is a conspiracy cover-up that affects 40% of people"),
          DirectClaim(NotAString)}

Ratings ==
  {"True", "False", "Mostly false", "Partly true", "Incorrect", "Inaccurate", "Wrong",
   "Mixed", "Mostly", "Mostly unproven", "Unproven", "Unverified", "Pants on Fire",
   NotAString}

Review(rating) == [textualRating |-> rating, url |-> "http://fc.example/review"]

ProbeResponses ==
  {ResponseError, ResponseNoData, ResponseData(<<>>), ResponseData(<< <<>> >>),
   ResponseData(<< <<>>, <<Review("False")>> >>)}
    \cup {ResponseData(<< <<Review(r)>> >>) : r \in Ratings}
    \cup {ResponseData(<< <<Review(r), Review("True")>>, <<Review("True")>> >>) :
            r \in {"False", NotAString}}

\* the stylistic scores the analyzer gives, and the verdict and confidence
\* of the results checkClaim gives, over the inputs above
StylisticScores == {analyzeMisinformationIndicators(a).score : a \in ProbeArticles}

CheckClaimOutcomes ==
  {checkClaim(cl, FALSE, NoResponse) : cl \in ProbeClaims}
    \cup {checkClaim(cl, TRUE, r) : cl \in ProbeClaims, r \in ProbeResponses}

ProducedResults ==
  {[verdict |-> o.value.verdict, confidence |-> o.value.confidence] :
     o \in {x \in CheckClaimOutcomes : x.tag = "value"}}

ResultLists == SeqsUpTo(ProducedResults, MaxResults)

ProbeAnalyze ==
  /\ probe = NoProbe
  /\ \E a \in ProbeArticles :
       probe' = [kind |-> "analyze", article |-> a,
                 analysis |-> analyzeMisinformationIndicators(a)]
  /\ UNCHANGED <<googleApiKey, pc, caller, cycleVars, checkVars, returned>>

ProbeCheckClaim ==
  /\ probe = NoProbe
  /\ \E cl \in ProbeClaims, key \in BOOLEAN :
       \E response \in (IF key THEN ProbeResponses ELSE {NoResponse}) :
         probe' = [kind |-> "checkClaim", claim |-> cl, googleApiKey |-> key,
                   response |-> response, outcome |-> checkClaim(cl, key, response)]
  /\ UNCHANGED <<googleApiKey, pc, caller, cycleVars, checkVars, returned>>

ProbeCombine ==
  /\ probe = NoProbe
  /\ \E nlpScore \in StylisticScores :
       \E list \in ResultLists :
         probe' = [kind |-> "combine", nlpScore |-> nlpScore, factCheckResults |-> list,
                   overallScore |-> calculateOverallScore(nlpScore, list)]
  /\ UNCHANGED <<googleApiKey, pc, caller, cycleVars, checkVars, returned>>

\* the pipeline stays as constructed
InitUnit ==
  /\ googleApiKey = FALSE
  /\ PipelineInit
  /\ probe = NoProbe

NextUnit == ProbeAnalyze \/ ProbeCheckClaim \/ ProbeCombine

SpecUnit == InitUnit /\ [][NextUnit]_vars

(***************************************************************************)
(* Properties of the pipeline (specification Spec).                        *)
(***************************************************************************)
\* the response holds no review with a textual rating, in any claim
NoUsableReview(response) ==
  \/ response.kind \in {"error", "nodata"}
  \/ /\ response.kind = "data"
     /\ \A k \in DOMAIN response.claims :
          \A r \in DOMAIN response.claims[k] : ~IsString(response.claims[k][r].textualRating)

\* the articles a batch can hold and the claims extractClaims gives for each
BatchArticles == {articleOf(item, FeedTitle) : item \in {x \in Items : x.title # "" /\ x.link # ""}}

ClaimsIn == [a \in BatchArticles |-> extractClaims(a)]

\* the claims a check can be about (with a string as text) and what the
\* heuristic variant alone gives for each
CheckableClaims ==
  UNION {Range(ClaimsIn[a]) : a \in BatchArticles} \cup {cl \in DirectClaims : IsString(cl.text)}

HeuristicOf == [cl \in CheckableClaims |-> heuristicFactCheck(cl)]

SameAsHeuristic(outcome, claim) ==
  /\ outcome.tag = "value"
  /\ outcome.value.verdict = HeuristicOf[claim].verdict
  /\ outcome.value.confidence = HeuristicOf[claim].confidence
  /\ outcome.value.sources = HeuristicOf[claim].sources
  /\ outcome.value.explanation = HeuristicOf[claim].explanation

CheckSucceeded(chk) == chk.outcome.tag = "value"

ValuesOf(chks) == [k \in DOMAIN chks |-> chks[k].outcome.value]

\* C2: checkClaims never throws; when it returns, every claim of its
\* argument has been checked, in order, and the returned sequence is, in
\* that order, the result of every check that succeeded and nothing for a
\* check that threw.
C2_PerClaimIsolation ==
  \A c \in Cycles :
    /\ ccReturn[c].tag # "throw"
    /\ caller[c] = "direct" => returned[c].tag # "throw"
    /\ ccReturn[c].tag = "value" =>
         /\ Len(checks[c]) = Len(claims[c])
         /\ \A k \in DOMAIN claims[c] : checks[c][k].claim = claims[c][k]
         /\ ccReturn[c].value = ValuesOf(SelectSeq(checks[c], CheckSucceeded))
         /\ \A k \in DOMAIN ccReturn[c].value :
              ccReturn[c].value[k].claim = SelectSeq(checks[c], CheckSucceeded)[k].claim

C2_Witness ==
  \E c \in Cycles :
    /\ ccReturn[c].tag = "value"
    /\ Len(ccReturn[c].value) = 1
    /\ Len(checks[c]) = 2
    /\ checks[c][1].outcome.tag = "throw"
    /\ checks[c][2].outcome.tag = "value"

\* C3: an article without claims gets no report from processArticle; the
\* analyzer, checkClaims and storeReport are not invoked for it; no report
\* of the cycle, held or returned, is about it.
C3_NoClaimsNoReport ==
  \A c \in Cycles :
    \A i \in DOMAIN articles[c] :
      Len(ClaimsIn[articles[c][i]]) = 0 =>
        /\ i \notin calls[c].analyze \cup calls[c].checkClaims \cup calls[c].storeReport
        /\ i \notin Range(reportIdx[c])
        /\ \A k \in DOMAIN reports[c] : reports[c][k].article # articles[c][i]
        /\ (caller[c] # "direct" /\ returned[c].tag = "value") =>
             \A k \in DOMAIN returned[c].value : returned[c].value[k].article # articles[c][i]

C3_Witness ==
  \E c \in Cycles :
    /\ pc[c] = "done"
    /\ caller[c] = "processArticle"
    /\ Len(returned[c].value) = 1
    /\ \E i \in calls[c].extractClaims : Len(ClaimsIn[articles[c][i]]) = 0

Indices(n) == [k \in 1..n |-> k]

\* C4: a monitoring cycle never throws; when it is done it returns, in batch
\* order, exactly one report for every article that has a claim and whose
\* processing did not fail, none for an article whose processing failed,
\* however the storing of any report ended.
C4_PerArticleIsolation ==
  \A c \in Cycles :
    /\ returned[c].tag # "throw"
    /\ (pc[c] = "done" /\ caller[c] # "direct") =>
         LET Reported(i) == i \notin calls[c].failed /\ Len(ClaimsIn[articles[c][i]]) > 0
             expected == SelectSeq(Indices(Len(articles[c])), Reported)
         IN  /\ returned[c].tag = "value"
             /\ reportIdx[c] = expected
             /\ Len(returned[c].value) = Len(expected)
             /\ \A k \in DOMAIN expected :
                  returned[c].value[k].article = articles[c][expected[k]]

C4_Witness ==
  \E c \in Cycles :
    /\ pc[c] = "done"
    /\ calls[c].failed = {1}
    /\ Len(returned[c].value) = 1
    /\ returned[c].value[1].article = articles[c][2]
    /\ \E k \in DOMAIN stored[c] : stored[c][k].outcome = "publish failed"

StrictlyBelow(score, hundredths) == score.num * 100 < hundredths * score.den

\* C5: a report is handed to storeReport if and only if its overallScore is
\* strictly below minConfidenceThreshold (a report just pushed may still be
\* on its way to storeReport); every report produced is returned, stored or
\* not and however the storing ended.
C5_PersistenceGating ==
  \A c \in Cycles :
    /\ \A k \in DOMAIN stored[c] :
         /\ StrictlyBelow(stored[c][k].report.overallScore, minConfidenceThreshold)
         /\ stored[c][k].report \in Range(reports[c])
    /\ Len(stored[c]) = Cardinality(calls[c].storeReport)
    /\ \A k \in DOMAIN reports[c] :
         StrictlyBelow(reports[c][k].overallScore, minConfidenceThreshold)
           <=> \/ reportIdx[c][k] \in calls[c].storeReport
               \/ pc[c] = "store" /\ k = Len(reports[c])
    /\ (pc[c] = "done" /\ caller[c] # "direct") =>
         /\ returned[c].value = reports[c]
         /\ \A i \in calls[c].checkClaims : i \in Range(reportIdx[c])

C5_Witness ==
  \E c \in Cycles :
    /\ pc[c] = "done"
    /\ caller[c] = "processArticle"
    /\ Len(returned[c].value) = 2
    /\ Len(stored[c]) = 1
    /\ FracEq(returned[c].value[1].overallScore, Frac(minConfidenceThreshold))
    /\ 1 \notin calls[c].storeReport
    /\ 2 \in calls[c].storeReport
    /\ stored[c][1].outcome = "hash failed"
    /\ stored[c][1].report = returned[c].value[2]

(***************************************************************************)
(* Properties of the pure functions (specification SpecUnit).              *)
(***************************************************************************)
\* C6: the stylistic score of every analysed article lies in [0,1], and so
\* does the combined score of every stylistic score the analyzer gives with
\* every list of results checkClaim gives (remote, fallback or none at all).
C6_ScoresClamped ==
  /\ probe.kind = "analyze" => probe.analysis.score >= 0 /\ probe.analysis.score <= 100
  /\ probe.kind = "combine" =>
       /\ probe.overallScore.den > 0
       /\ probe.overallScore.num >= 0
       /\ probe.overallScore.num <= probe.overallScore.den

C6_Witness ==
  /\ probe.kind = "combine"
  /\ Len(probe.factCheckResults) = 2
  /\ probe.factCheckResults[1].verdict = "FALSE"
  /\ probe.nlpScore = 25
  /\ probe.overallScore.num > 0

\* C7: every result checkClaim returns, from the oracle's review whatever
\* its textual rating or from the heuristic variant whatever the claim text,
\* has its verdict among TRUE, FALSE, MIXED, UNVERIFIED, UNKNOWN.
C7_VerdictClosure ==
  (probe.kind = "checkClaim" /\ probe.outcome.tag = "value") =>
    probe.outcome.value.verdict \in {"TRUE", "FALSE", "MIXED", "UNVERIFIED", "UNKNOWN"}

C7_Witness ==
  /\ probe.kind = "checkClaim"
  /\ probe.googleApiKey
  /\ probe.response = ResponseData(<< <<Review("Pants on Fire")>> >>)
  /\ probe.outcome.tag = "value"
  /\ probe.outcome.value.sources = <<"http://fc.example/review">>
  /\ probe.outcome.value.verdict = "UNKNOWN"

\* the directional score of the specification, in hundredths
Directional(verdict, confidence) ==
  CASE verdict \in {"TRUE", "UNVERIFIED", "UNKNOWN"} -> confidence
    [] verdict = "FALSE" -> 100 - confidence
    [] verdict = "MIXED" -> 50

RECURSIVE SumOver(_, _)
\* the sum of f over the finite set S
SumOver(S, f) ==
  IF S = {} THEN 0
  ELSE LET x == CHOOSE y \in S : TRUE IN f[x] + SumOver(S \ {x}, f)

\* C8: without results the combined score is the stylistic score; with n
\* results it is 0.4*s + 0.6*avg, avg the mean of the directional scores:
\* 1000*n*combined = 4*n*s + 6*(sum of the directional scores), in
\* hundredths.  s = 0.8 without results gives 0.8; s = 0.7 with TRUE and
\* FALSE at confidence 0.8 gives 0.58.
C8_ScoreCombination ==
  probe.kind = "combine" =>
    LET s == probe.nlpScore
        rs == probe.factCheckResults
        n == Len(rs)
        score == probe.overallScore
        dir == [k \in DOMAIN rs |-> Directional(rs[k].verdict, rs[k].confidence)]
    IN  /\ n = 0 => score.num * 100 = s * score.den
        /\ n > 0 => score.num * 1000 * n = (4 * n * s + 6 * SumOver(DOMAIN rs, dir)) * score.den
        /\ (s = 80 /\ n = 0) => score.num * 100 = 80 * score.den
        /\ (s = 70 /\ rs = <<[verdict |-> "TRUE", confidence |-> 80],
                             [verdict |-> "FALSE", confidence |-> 80]>>)
             => score.num * 100 = 58 * score.den

C8_Witness ==
  /\ probe.kind = "combine"
  /\ probe.nlpScore = 70
  /\ probe.factCheckResults = <<[verdict |-> "TRUE", confidence |-> 80],
                                [verdict |-> "FALSE", confidence |-> 80]>>
  /\ FracEq(probe.overallScore, Frac(58))

\* the maximal runs of word characters of the text, as <<first, last>>
WordSpans(text) ==
  LET inWord == {k \in 1..Len(text) : CharAt(text, k) \in WordChars}
      starts == {k \in inWord : k - 1 \notin inWord}
      EndOf(b) == CHOOSE e \in inWord : e >= b /\ (b..e) \subseteq inWord /\ e + 1 \notin inWord
  IN  {<<b, EndOf(b)>> : b \in starts}

\* the occurrences of all-caps words of at least 3 letters
AllCapsSpans(text) ==
  {w \in WordSpans(text) :
     w[2] - w[1] + 1 >= 3 /\ \A k \in w[1]..w[2] : CharAt(text, k) \in UpperChars}

\* the distinct all-caps words of at least 3 letters
AllCapsWords(text) == {SubSeq(text, w[1], w[2]) : w \in AllCapsSpans(text)}

\* the entries of the (lower-case) lexicon that occur in the text, whatever
\* the case of the text
Hits(lexicon, text) ==
  LET lower == toLowerCase(text) IN {w \in Range(lexicon) : includes(lower, w)}

UncertaintyTrigger(article) == Cardinality(Hits(uncertaintyIndicators, article.content)) > 5

SensationalTrigger(article) ==
  \/ \E i \in 1..(Len(article.title) - 1) :
       CharAt(article.title, i) = "!" /\ CharAt(article.title, i + 1) = "!"
  \/ Hits(<<"breaking", "shocking", "unbelievable">>, article.title) # {}

EmotionalTrigger(article) ==
  Cardinality(Hits(<<"outrage", "scandal", "crisis", "disaster", "devastating">>,
                   article.content)) > 3

NoSourcesTrigger(article) ==
  Hits(<<"according to", "source", "research", "study", "data">>, article.content) = {}

FlagsMatch(article, flags, capitalizationTrigger) ==
  /\ FlagUncertainty \in Range(flags) <=> UncertaintyTrigger(article)
  /\ FlagSensational \in Range(flags) <=> SensationalTrigger(article)
  /\ FlagCapitalization \in Range(flags) <=> capitalizationTrigger
  /\ FlagEmotional \in Range(flags) <=> EmotionalTrigger(article)
  /\ FlagNoSources \in Range(flags) <=> NoSourcesTrigger(article)

\* C9 as stated: each flag is in the list if and only if its trigger holds,
\* the capitalization trigger being more than 2 distinct all-caps words of
\* at least 3 letters in the title.
C9_FlagCorrespondenceDistinct ==
  probe.kind = "analyze" =>
    FlagsMatch(probe.article, probe.analysis.flags,
               Cardinality(AllCapsWords(probe.article.title)) > 2)

\* C9 amended: each flag is in the list if and only if its trigger holds,
\* the capitalization trigger being more than 2 occurrences of all-caps
\* words of at least 3 letters in the title, repetitions counted; a lexicon
\* hit is an entry of the lexicon that occurs in the content.
C9_FlagCorrespondence ==
  probe.kind = "analyze" =>
    FlagsMatch(probe.article, probe.analysis.flags,
               Cardinality(AllCapsSpans(probe.article.title)) > 2)

C9_Witness ==
  /\ probe.kind = "analyze"
  /\ probe.article.title = "WOW USA WOW"
  /\ Cardinality(AllCapsWords(probe.article.title)) = 2
  /\ FlagCapitalization \in Range(probe.analysis.flags)
  /\ FlagNoSources \in Range(probe.analysis.flags)
  /\ FlagUncertainty \notin Range(probe.analysis.flags)

\* the penalty of each flag, in hundredths
PenaltyOf(flag) ==
  CASE flag = FlagUncertainty -> 20
    [] flag = FlagSensational -> 15
    [] flag = FlagCapitalization -> 10
    [] flag = FlagEmotional -> 10
    [] flag = FlagNoSources -> 20

EventsOf(c, ev) == {p \in 1..Len(events[c]) : events[c][p].ev = ev}

\* the positions in claims whose check has started and not ended
InFlight(c) ==
  {events[c][p].i : p \in EventsOf(c, "start")}
    \ {events[c][p].i : p \in EventsOf(c, "end")}

\* the check that started at position q of events has ended before position p
EndedBefore(c, q, p) ==
  \E r \in (q + 1)..(p - 1) :
    events[c][r].ev = "end" /\ events[c][r].i = events[c][q].i

\* the article at batch position k is done with: nothing of it is pending
ArticleFinished(c, k) ==
  /\ k \in calls[c].extractClaims
  /\ k \in calls[c].checkClaims => k \in Range(reportIdx[c])

\* C11: within one cycle the articles are processed one at a time and in
\* order, and within one checkClaims call the check of a claim (its remote
\* call included) starts only after the checks of all earlier claims have
\* ended: never are two claim checks of a call in flight.
C11_SequentialProcessing ==
  \A c \in Cycles :
    /\ Cardinality(InFlight(c)) <= 1
    /\ \A p \in EventsOf(c, "start") :
         \A q \in EventsOf(c, "start") :
           q < p => events[c][q].i < events[c][p].i /\ EndedBefore(c, q, p)
    /\ pc[c] = "remote" => InFlight(c) = {ci[c]}
    /\ (caller[c] = "processArticle" /\ pc[c] \in {"check", "remote", "delay"})
         => /\ calls[c].extractClaims = 1..ai[c]
            /\ \A k \in 1..(ai[c] - 1) : ArticleFinished(c, k)
    /\ pc[c] = "article"
         => /\ calls[c].extractClaims = 1..(ai[c] - 1)
            /\ \A k \in 1..(ai[c] - 1) : ArticleFinished(c, k)

\* the second claim of the second article is being asked about remotely,
\* after the first article was checked
C11_Witness ==
  /\ pc[1] = "remote"
  /\ ai[1] = 2
  /\ ci[1] = 2
  /\ 1 \in calls[1].checkClaims
  /\ \E p \in EventsOf(1, "end") : events[1][p].i = 1


DelayBetween(c, p, q) == \E r \in (p + 1)..(q - 1) : events[c][r].ev = "delay"

\* C12 as stated: in checkClaims every claim check, however it ends, is
\* followed by the 1-second delay before the next claim check begins.
C12_DelayAfterEveryCheck ==
  \A c \in Cycles :
    \A p \in EventsOf(c, "end") :
      \A q \in EventsOf(c, "start") : p < q => DelayBetween(c, p, q)

\* C12: in checkClaims every claim check that ends with a result is followed
\* by the 1-second delay before the next claim check begins; a check that
\* throws is followed by the next check at once, and it has made no remote
\* call, so between two remote calls of one checkClaims call the delay
\* always occurs.
C12_DelayAfterResult ==
  \A c \in Cycles :
    /\ \A p \in EventsOf(c, "end") :
         IF events[c][p].ok
           THEN /\ p < Len(events[c]) => events[c][p + 1].ev = "delay"
                /\ \A q \in EventsOf(c, "start") : p < q => DelayBetween(c, p, q)
           ELSE /\ p < Len(events[c]) => events[c][p + 1].ev = "start"
                /\ \A r \in EventsOf(c, "request") : events[c][r].i # events[c][p].i
    /\ \A p \in EventsOf(c, "request") :
         \A q \in EventsOf(c, "request") : p < q => DelayBetween(c, p, q)

\* a check ended with a result, the timer fired, the next check started with
\* a remote call
C12_Witness ==
  \E p \in EventsOf(1, "end") :
    /\ events[1][p].ok
    /\ p + 3 <= Len(events[1])
    /\ events[1][p + 1].ev = "delay"
    /\ events[1][p + 2].ev = "start"
    /\ events[1][p + 3].ev = "request"


(***************************************************************************)
(* Termination of the remote call (specification Spec).                    *)
(***************************************************************************)
\* C13: every remote fact-check call completes even when the oracle never
\* answers: while a request is pending the process has a step of its own (a
\* timeout) that ends the wait, so that checkClaims and processArticle go on
\* to return.
C13_RemoteCallBounded ==
  \A c \in Cycles : pc[c] = "remote" => ENABLED LocalStep(c)

(***************************************************************************)
(* The report (specification Spec).                                        *)
(***************************************************************************)
\* what the analyzer gives for each article of a batch it can analyse
AnalysisIn ==
  [a \in {x \in BatchArticles : IsString(x.title)} |-> analyzeMisinformationIndicators(a)]

\* C14: every report of processArticle carries the input article, the
\* claims extractClaims gave for it, the results checkClaims returned for
\* these claims, the analyzer's flags and nothing else as flags, and the
\* combiner's output for the analyzer's score and these results.
C14_ReportVerbatim ==
  \A c \in Cycles :
    /\ \A k \in 1..Len(reports[c]) :
         LET report == reports[c][k]
             article == articles[c][reportIdx[c][k]]
         IN  /\ report.article = article
             /\ report.claims = ClaimsIn[article]
             /\ Len(report.factCheckResults) = Len(report.claims)
             /\ \A i \in 1..Len(report.claims) :
                  report.factCheckResults[i].claim = report.claims[i]
             /\ report.flags = AnalysisIn[article].flags
             /\ report.overallScore
                  = calculateOverallScore(AnalysisIn[article].score, report.factCheckResults)
    /\ (caller[c] = "processArticle" /\ ccReturn[c].tag = "value")
         => /\ Len(reports[c]) > 0
            /\ reports[c][Len(reports[c])].factCheckResults = ccReturn[c].value
            /\ ccReturn[c].value = ValuesOf(checks[c])

\* a report with one remote-sourced result and three analyzer flags has
\* been assembled
C14_Witness ==
  /\ Len(reports[1]) > 0
  /\ ccReturn[1].tag = "value"
  /\ LET report == reports[1][Len(reports[1])]
     IN  /\ Len(report.factCheckResults) = 1
         /\ report.factCheckResults[1].confidence = 80
         /\ report.factCheckResults[1].explanation = "False"
         /\ Len(report.flags) = 3


(***************************************************************************)
(* The batch (specification Spec).                                         *)
(***************************************************************************)
\* C15: the batch fetchFromRSS hands to the pipeline never holds two
\* articles with the same id, and so a cycle never has two reports for one
\* article URL.
C15_DeduplicatedBatch ==
  \A c \in Cycles :
    /\ \A i, j \in 1..Len(articles[c]) :
         i # j => articles[c][i].id # articles[c][j].id
    /\ \A i, j \in 1..Len(reports[c]) :
         i # j => reports[c][i].article.url # reports[c][j].article.url


(***************************************************************************)
(* The remote variant and the heuristic variant (specification SpecUnit).  *)
(***************************************************************************)
\* checkClaim was applied, with a credential, to a claim whose text is a
\* string
RemoteProbe ==
  /\ probe.kind = "checkClaim"
  /\ probe.googleApiKey
  /\ IsString(probe.claim.text)

ReviewsOf(response) ==
  IF response.kind = "data"
    THEN UNION {Range(response.claims[k]) : k \in 1..Len(response.claims)}
    ELSE {}

\* the result is the remote-sourced one made from this review
FromReview(outcome, review) ==
  /\ outcome.tag = "value"
  /\ IsString(review.textualRating)
  /\ outcome.value.verdict = normalizeVerdict(review.textualRating)
  /\ outcome.value.confidence = 80
  /\ outcome.value.sources = <<review.url>>

IsHeuristicResult(outcome, claim) ==
  /\ outcome.tag = "value"
  /\ outcome.value = heuristicFactCheck(claim)

\* C16 as stated: whenever the response holds a claim review, in whichever
\* of its claims, the result is remote-sourced from a review of the
\* response; the heuristic result is given only on a transport error or
\* when the response holds no review at all.
C16_RemoteMatchAnyClaim ==
  (RemoteProbe /\ \A rv \in ReviewsOf(probe.response) : IsString(rv.textualRating))
    => IF ReviewsOf(probe.response) # {}
         THEN \E rv \in ReviewsOf(probe.response) : FromReview(probe.outcome, rv)
         ELSE IsHeuristicResult(probe.outcome, probe.claim)

\* the first review of the first claim of the response, when it is there
\* and has a rating
FirstReview(response) ==
  IF /\ response.kind = "data"
     /\ Len(response.claims) > 0
     /\ Len(response.claims[1]) > 0
     /\ IsString(response.claims[1][1].textualRating)
    THEN {response.claims[1][1]}
    ELSE {}

\* C16: with a credential, the result is remote-sourced exactly when the
\* first claim of a successful response has a review and that first review
\* has a textual rating: verdict the normalisation of that rating,
\* confidence 0.8, sources the review's URL, explanation the rating.  In
\* every other case (transport error, no body, no claim, a first claim
\* without review, a first review without rating) the result is the
\* heuristic one, whatever the later claims and reviews of the response are.
C16_RemoteMatchFirstReview ==
  RemoteProbe
    => IF FirstReview(probe.response) # {}
         THEN \A rv \in FirstReview(probe.response) :
                /\ FromReview(probe.outcome, rv)
                /\ probe.outcome.value.explanation = rv.textualRating
                /\ probe.outcome.value.claim = probe.claim
         ELSE IsHeuristicResult(probe.outcome, probe.claim)

\* the first claim of the response has two reviews, rated "False" and
\* "True": the result is made from the first
C16_Witness ==
  /\ RemoteProbe
  /\ probe.response.kind = "data"
  /\ Len(probe.response.claims) = 2
  /\ Len(probe.response.claims[1]) = 2
  /\ probe.response.claims[1][1].textualRating = "False"
  /\ probe.outcome.value.verdict = "FALSE"
  /\ probe.outcome.value.confidence = 80


\* the keyword groups of the rating normalisation, in their order
VerdictGroups ==
  << [verdict |-> "TRUE", keywords |-> {"true", "correct", "accurate"}],
     [verdict |-> "FALSE", keywords |-> {"false", "incorrect", "wrong"}],
     [verdict |-> "MIXED", keywords |-> {"mixed", "partly", "mostly"}],
     [verdict |-> "UNVERIFIED", keywords |-> {"unverified", "unproven"}] >>

OccursIn(keyword, text) ==
  \E i \in 1..(Len(text) - Len(keyword) + 1) :
    SubSeq(text, i, i + Len(keyword) - 1) = keyword

\* the groups with a keyword occurring in the lower-cased rating
GroupsMatching(rating) ==
  {g \in DOMAIN VerdictGroups :
     \E keyword \in VerdictGroups[g].keywords : OccursIn(keyword, toLowerCase(rating))}

VerdictByPrecedence(rating) ==
  IF GroupsMatching(rating) = {} THEN "UNKNOWN"
  ELSE VerdictGroups[CHOOSE g \in GroupsMatching(rating) :
                       \A h \in GroupsMatching(rating) : g <= h].verdict

\* C17: the verdict of a rating is that of the first group, in the order
\* TRUE, FALSE, MIXED, UNVERIFIED, with a keyword occurring in the
\* lower-cased rating, and UNKNOWN when no group has one; 'Mostly false'
\* gives FALSE and 'Partly true' gives TRUE.
C17_NormalizationPrecedence ==
  (RemoteProbe /\ FirstReview(probe.response) # {})
    => \A rv \in FirstReview(probe.response) :
         /\ probe.outcome.value.verdict = VerdictByPrecedence(rv.textualRating)
         /\ rv.textualRating = "Mostly false" => probe.outcome.value.verdict = "FALSE"
         /\ rv.textualRating = "Partly true" => probe.outcome.value.verdict = "TRUE"

\* a rating with keywords of two groups (FALSE and MIXED) has been normalised
C17_Witness ==
  /\ RemoteProbe
  /\ probe.response = ResponseData(<< <<Review("Mostly false")>> >>)
  /\ GroupsMatching("Mostly false") = {2, 3}
  /\ probe.outcome.value.verdict = "FALSE"


\* checkClaim was applied, without credential, to a claim whose text is a
\* string: the result is the heuristic variant's
HeuristicProbe ==
  /\ probe.kind = "checkClaim"
  /\ ~probe.googleApiKey
  /\ IsString(probe.claim.text)

OccursAny(phrases, text) == \E ph \in phrases : OccursIn(ph, toLowerCase(text))

HasConspiracyPhrase(text) ==
  OccursAny({"conspiracy", "cover-up", "they don't want you to know"}, text)

HasVerificationPhrase(text) ==
  OccursAny({"study published", "peer-reviewed", "official statement"}, text)

ConspiracyFlag == "Contains conspiracy language"

VerificationFlag == "Contains verification indicators"

StatisticsFlag == "Contains statistics without clear sources"

\* C18: a claim text with a conspiracy-style phrase gets the verdict FALSE
\* with confidence 0.3 and the conspiracy flag; the verification rule
\* (verdict TRUE, its flag) applies only to a text without such a phrase, so a
\* text with both kinds of phrase ends FALSE and without the verification
\* flag.
C18_HeuristicBranchExclusive ==
  HeuristicProbe
    => LET text == probe.claim.text
           result == probe.outcome.value
       IN  /\ HasConspiracyPhrase(text)
                => /\ result.verdict = "FALSE"
                   /\ result.confidence = 30
                   /\ OccursIn(ConspiracyFlag, result.explanation)
                   /\ ~OccursIn(VerificationFlag, result.explanation)
           /\ (~HasConspiracyPhrase(text) /\ HasVerificationPhrase(text))
                => /\ result.verdict = "TRUE"
                   /\ OccursIn(VerificationFlag, result.explanation)


\* the flags the heuristic variant fired, read off its explanation, in the
\* order of its rules
FiredFlags(result) ==
  SelectSeq(<<ConspiracyFlag, VerificationFlag, StatisticsFlag>>,
            LAMBDA flag : OccursIn(flag, result.explanation))

\* the confidence the rules before the statistics rule have set, hundredths
EarlierConfidence(result) ==
  IF OccursIn(VerificationFlag, result.explanation) THEN 70
  ELSE IF OccursIn(ConspiracyFlag, result.explanation) THEN 30
  ELSE 50

EarlierVerdict(result) ==
  IF OccursIn(VerificationFlag, result.explanation) THEN "TRUE"
  ELSE IF OccursIn(ConspiracyFlag, result.explanation) THEN "FALSE"
  ELSE "UNVERIFIED"

\* a percentage or scale numeral and no source citation in the text
UnsourcedStatistic(text) ==
  /\ hasNumbersPattern(toLowerCase(text))
  /\ ~hasSourcesPattern(toLowerCase(text))

\* what C19 says of a result, but for the value of the confidence
StatisticsRule(text, result) ==
  /\ OccursIn(StatisticsFlag, result.explanation) <=> UnsourcedStatistic(text)
  /\ result.confidence
       = IF UnsourcedStatistic(text) THEN Max(30, EarlierConfidence(result) - 20)
                                     ELSE EarlierConfidence(result)
  /\ result.verdict = EarlierVerdict(result)
  /\ result.explanation
       = IF FiredFlags(result) = <<>> THEN HeuristicDefaultExplanation
                                      ELSE join(FiredFlags(result), "; ")
  /\ text = "This is a conspiracy cover-up that affects 40% of people"
       => /\ result.verdict = "FALSE"
          /\ result.confidence = 30
          /\ result.confidenceUlps = 0
          /\ FiredFlags(result) = <<ConspiracyFlag, StatisticsFlag>>

\* C19 as stated: ..., and the heuristic confidence is always one of 0.3,
\* 0.5, 0.7.
C19_UnsourcedStatisticExact ==
  HeuristicProbe
    => /\ StatisticsRule(probe.claim.text, probe.outcome.value)
       /\ probe.outcome.value.confidence \in {30, 50, 70}
       /\ probe.outcome.value.confidenceUlps = 0

\* C19: with a percentage or scale numeral and no source citation in the
\* text, the confidence is Math.max(0.3, c - 0.2) computed in doubles, c
\* being the confidence the earlier rules have set, the verdict stays and
\* the statistics flag is added; otherwise the confidence is c.  The
\* heuristic confidence is one of 0.3, 0.5, 0.7, but for c = 0.7 lowered:
\* the double 0.7 - 0.2 is 0.49999999999999994, the double next below 0.5.
\* The explanation is the fired flags joined by "; ", or the default text.
C19_UnsourcedStatistic ==
  HeuristicProbe
    => LET text == probe.claim.text
           result == probe.outcome.value
       IN  /\ StatisticsRule(text, result)
           /\ result.confidence \in {30, 50, 70}
           /\ IF UnsourcedStatistic(text) /\ EarlierConfidence(result) = 70
                THEN result.confidence = 50 /\ result.confidenceUlps = -1
                ELSE result.confidenceUlps = 0

\* the worked example: conspiracy language and an unsourced percentage
C19_Witness ==
  /\ HeuristicProbe
  /\ probe.claim.text = "This is a conspiracy cover-up that affects 40% of people"
  /\ probe.outcome.value.explanation
       = "Contains conspiracy language; Contains statistics without clear sources"
  /\ probe.outcome.value.confidence = 30


(***************************************************************************)
(* Cycles of the timer (specification SpecMonitor).                        *)
(***************************************************************************)
Running(c) == pc[c] \notin {"idle", "done"}

\* C20: a cycle started by the timer never starts while an earlier cycle is
\* still running, so never are two cycles running and never is more than
\* one claim check in flight in the process.
C20_CyclesNeverOverlap ==
  /\ \A c, d \in Cycles : (c # d /\ Running(c)) => ~Running(d)
  /\ Cardinality({c \in Cycles : pc[c] = "remote"}) <= 1


(***************************************************************************)
(* The keywords of the FALSE group (specification SpecUnit).               *)
(***************************************************************************)
AllKeywords == UNION {VerdictGroups[g].keywords : g \in DOMAIN VerdictGroups}

\* the listed keywords occurring in the lower-cased rating; "correct" is
\* left out where it occurs only as a part of "incorrect"
KeywordsIn(rating) ==
  LET found == {k \in AllKeywords : OccursIn(k, toLowerCase(rating))}
  IN  IF "incorrect" \in found THEN found \ {"correct"} ELSE found

\* C21: every keyword of the FALSE group is effective: a rating whose only
\* listed keyword is one of 'false', 'incorrect', 'wrong' is normalised to
\* FALSE; so 'Incorrect' gives FALSE as 'False' and 'Wrong' do.
C21_FalseKeywordsEffective ==
  (RemoteProbe /\ FirstReview(probe.response) # {})
    => \A rv \in FirstReview(probe.response) :
         (/\ KeywordsIn(rv.textualRating) # {}
          /\ KeywordsIn(rv.textualRating) \subseteq {"false", "incorrect", "wrong"})
           => probe.outcome.value.verdict = "FALSE"


(***************************************************************************)
(* The heuristic verdicts in the combined score (specification SpecUnit).  *)
(***************************************************************************)
\* verdict and confidence of the results the heuristic variant gives
HeuristicResults ==
  {[verdict |-> heuristicFactCheck(cl).verdict,
    confidence |-> heuristicFactCheck(cl).confidence] :
     cl \in {x \in ProbeClaims : IsString(x.text)}}

\* C22: with the stylistic score and the other results fixed, a heuristic
\* FALSE result contributes a directional value no higher than a heuristic
\* UNVERIFIED or TRUE result does, and the combined score with it is no
\* higher than with the other in its place.
C22_RefutationNeverRaises ==
  probe.kind = "combine"
    => \A k \in DOMAIN probe.factCheckResults :
         (/\ probe.factCheckResults[k] \in HeuristicResults
          /\ probe.factCheckResults[k].verdict = "FALSE")
           => \A other \in {r \in HeuristicResults : r.verdict \in {"UNVERIFIED", "TRUE"}} :
                /\ directionalScore(probe.factCheckResults[k]) <= directionalScore(other)
                /\ ~FracLess(calculateOverallScore(probe.nlpScore,
                                                   [probe.factCheckResults EXCEPT ![k] = other]),
                             probe.overallScore)


(***************************************************************************)
(* The shape of a report (specification Spec).                             *)
(***************************************************************************)
\* sub is seq with some of its elements left out: the elements of sub are,
\* in order, elements at distinct positions of seq
RECURSIVE IsSubsequence(_, _)
IsSubsequence(sub, seq) ==
  IF Len(sub) = 0 THEN TRUE
  ELSE IF Len(seq) = 0 THEN FALSE
  ELSE IF Head(sub) = Head(seq) /\ IsSubsequence(Tail(sub), Tail(seq)) THEN TRUE
  ELSE IsSubsequence(sub, Tail(seq))

WellFormed(report) ==
  /\ Len(report.claims) >= 1
  /\ Len(report.factCheckResults) <= Len(report.claims)
  /\ IsSubsequence([k \in DOMAIN report.factCheckResults |-> report.factCheckResults[k].claim],
                   report.claims)
  /\ \A k \in DOMAIN report.claims : report.claims[k].article = report.article

\* C23: every report of processArticle, and every report runMonitoringCycle
\* returns, has at least one claim and no more results than claims; the
\* claims of its results are, in order and each at a place of its own, claims
\* of the report; every claim of the report references the report's article.
C23_ReportWellFormed ==
  \A c \in Cycles :
    /\ \A k \in DOMAIN reports[c] : WellFormed(reports[c][k])
    /\ (caller[c] # "direct" /\ returned[c].tag = "value")
         => \A k \in DOMAIN returned[c].value : WellFormed(returned[c].value[k])

\* a cycle has returned the report of an article with the same sentence
\* twice: two equal claims, two results
C23_Witness ==
  /\ pc[1] = "done"
  /\ caller[1] = "processArticle"
  /\ \E k \in DOMAIN returned[1].value :
       LET report == returned[1].value[k]
       IN  /\ Len(report.claims) = 2
           /\ report.claims[1] = report.claims[2]
           /\ Len(report.factCheckResults) = 2


=============================================================================
